---- MODULE Spec2Model ----
(***************************************************************************)
(* State-machine model of the vtas bytecode generator (crates/bytecode)   *)
(* and stack virtual machine (crates/vm).                                  *)
(*                                                                         *)
(* The virtual machine part models VM::run / VM::tick over a program made  *)
(* of chunks; the generator part models GeneratorState (the scope stack)   *)
(* and the jump patch protocol of BytecodeGenerator.                       *)
(***************************************************************************)
EXTENDS Integers, Sequences, FiniteSets, TLC

VARIABLES
    program,     \* VM input: sequence of Functions [arity, opcodes]; program[1] is main
    constants,   \* VM input: the constant pool read by Constant(index)
    operands,    \* VM.operands
    call_stack,  \* VM.call_stack
    ip,          \* VM.ip
    pc,          \* position inside VM::run: "loop", "finish", "done"
    outcome,     \* what VM::run returned (or how it ended)
    last,        \* the opcode dispatched by the latest tick, with the state it saw
    debug,       \* VM.debug: is the trace on, did its latest write succeed; and the
                 \* run of the same program by a VM without the trace
    scopes,      \* GeneratorState.scopes
    chunk,       \* opcodes of the generator's current chunk
    hist,        \* generator bookkeeping about the latest resolver/patch operation
    parser       \* Parser: the tokens of its input, its position in them, and
                 \* what parse_expression returned

vmvars == <<program, constants, operands, call_stack, ip, pc, outcome, last, debug>>
genvars == <<scopes, chunk, hist>>
vars == <<program, constants, operands, call_stack, ip, pc, outcome, last, debug,
          scopes, chunk, hist, parser>>

(***************************************************************************)
(* Bounds of the model.                                                    *)
(***************************************************************************)
MaxArithLen == 4
MaxBlockLen == 5
MaxPopLen == 4
MaxChainOps == 3
MaxMemLen == 6
MaxGlobalLen == 4
MaxCallLen == 4
MaxCalleeLen == 3
MaxFlowLen == 4
MaxOperands == 3
MaxStepLen == 4
MaxPatchScopes == 3
MaxPatchChunk == 2
MaxBranchLen == 2
MaxScopes == 4
MaxVars == 2
MaxUpvalues == 4
MaxChunk == 5

(***************************************************************************)
(* Runtime values.  Every value is a record [t, a, b] of a tag and two     *)
(* integers.  A Number is the rational a/b (b = 0: infinity or NaN).       *)
(***************************************************************************)
Abs(x) == IF x < 0 THEN -x ELSE x

Sign(x) == IF x < 0 THEN -1 ELSE IF x > 0 THEN 1 ELSE 0

RECURSIVE Gcd(_, _)
Gcd(x, y) == IF y = 0 THEN x ELSE Gcd(y, x % y)

Number(n, d) ==
    IF d = 0 THEN [t |-> "Number", a |-> Sign(n), b |-> 0]
    ELSE LET g == Gcd(Abs(n), Abs(d))
         IN [t |-> "Number", a |-> (Sign(d) * n) \div g, b |-> Abs(d) \div g]

Num(n) == Number(n, 1)
NaN == Number(0, 0)
Bool(x) == [t |-> "Bool", a |-> IF x THEN 1 ELSE 0, b |-> 0]
NullValue == [t |-> "Null", a |-> 0, b |-> 0]
Local(i) == [t |-> "Local", a |-> i, b |-> 0]
Upvalue(i) == [t |-> "Upvalue", a |-> i, b |-> 0]
Global(name) == [t |-> "Global", a |-> name, b |-> 0]
Callable(f) == [t |-> "Function", a |-> f, b |-> 0]
BuiltIn(name) == [t |-> "BuiltIn", a |-> name, b |-> 0]

IsNumber(v) == v.t = "Number"
IsAddress(v) == v.t \in {"Local", "Upvalue", "Global"}

\* Names of the standard-library table: 1 is defined, every other name is not.
STD_FUNCTIONS == {1}

(***************************************************************************)
(* Number arithmetic (f64 modelled as extended rationals).                 *)
(***************************************************************************)
NumAdd(x, y) ==
    IF x.b = 0 /\ y.b = 0 THEN (IF x.a = y.a THEN x ELSE NaN)
    ELSE Number(x.a * y.b + y.a * x.b, x.b * y.b)

NumNeg(x) == Number(-x.a, x.b)

NumSub(x, y) == NumAdd(x, NumNeg(y))

NumMul(x, y) == Number(x.a * y.a, x.b * y.b)

NumDiv(x, y) == Number(x.a * y.b, x.b * y.a)

Trunc(x) == IF x.b = 0 THEN x ELSE Num(Sign(x.a) * (Abs(x.a) \div x.b))

NumMod(x, y) ==
    IF x.b = 0 \/ y.a = 0 THEN NaN
    ELSE IF y.b = 0 THEN x
    ELSE NumSub(x, NumMul(y, Trunc(NumDiv(x, y))))

(***************************************************************************)
(* Opcodes: [op, a] with the payload a (0 when the opcode has none).       *)
(***************************************************************************)
Op(name) == [op |-> name, a |-> 0]
Constant(index) == [op |-> "Constant", a |-> index]
Jif(distance) == [op |-> "Jif", a |-> distance]
Jp(distance) == [op |-> "Jp", a |-> distance]
Break(distance) == [op |-> "Break", a |-> distance]
Pop(amount) == [op |-> "Pop", a |-> amount]
Block(amount) == [op |-> "Block", a |-> amount]

(***************************************************************************)
(* Results of VM operations: MachineResult<T> over the machine state m =   *)
(* [operands, call_stack, ip].  st is "Ok", "Err" (a RuntimeError with its *)
(* cause) or "Panic" (the process aborts).                                 *)
(***************************************************************************)
Ok(m, v) == [m |-> m, st |-> "Ok", cause |-> "", val |-> v]
Err(m, cause) == [m |-> m, st |-> "Err", cause |-> cause, val |-> NullValue]
Panic(m, msg) == [m |-> m, st |-> "Panic", cause |-> msg, val |-> NullValue]

Front(s) == SubSeq(s, 1, Len(s) - 1)
Top(s) == s[Len(s)]

push_operand(m, v) == [m EXCEPT !.operands = Append(@, v)]

pop_operand(m) ==
    IF m.operands = <<>> THEN Err(m, "PoppedFromEmptyStack")
    ELSE Ok([m EXCEPT !.operands = Front(@)], Top(m.operands))

pop_number(m) ==
    LET r == pop_operand(m)
    IN IF r.st # "Ok" THEN r
       ELSE IF IsNumber(r.val) THEN r ELSE Err(r.m, "ExpectedNumber")

pop_address(m) ==
    LET r == pop_operand(m)
    IN IF r.st # "Ok" THEN r
       ELSE IF IsAddress(r.val) THEN r ELSE Err(r.m, "ExpectedAddress")

to_bool(m, v) == IF v.t = "Bool" THEN Ok(m, v) ELSE Err(m, "ExpectedBool")

(***************************************************************************)
(* Arithmetic opcodes: pop two Numbers, push one result.                   *)
(***************************************************************************)
NumericResult(name, x, y) ==
    CASE name = "Add" -> NumAdd(x, y)
      [] name = "Sub" -> NumSub(x, y)
      [] name = "Mul" -> NumMul(x, y)
      [] name = "Div" -> NumDiv(x, y)
      [] name = "Mod" -> NumMod(x, y)

binary_number_op(m, name) ==
    LET rb == pop_number(m)
    IN IF rb.st # "Ok" THEN rb
       ELSE LET ra == pop_number(rb.m)
            IN IF ra.st # "Ok" THEN ra
               ELSE Ok(push_operand(ra.m, NumericResult(name, ra.val, rb.val)), NullValue)

op_add(m) == binary_number_op(m, "Add")
op_sub(m) == binary_number_op(m, "Sub")
op_mul(m) == binary_number_op(m, "Mul")
op_div(m) == binary_number_op(m, "Div")
op_mod(m) == binary_number_op(m, "Mod")

op_constant(m, index) ==
    IF index + 1 \in DOMAIN constants
    THEN Ok(push_operand(m, constants[index + 1]), NullValue)
    ELSE Panic(m, "constant index out of range")

(***************************************************************************)
(* crates/vm/src/memory.rs                                                 *)
(***************************************************************************)
current_frame(m) == Top(m.call_stack)

\* op_pop removing a single operand whatever the amount.
op_pop_single(m, amount) ==
    IF amount = 0 THEN Ok(m, NullValue) ELSE pop_operand(m)

RECURSIVE op_pop(_, _)
op_pop(m, amount) ==
    IF amount = 0 THEN Ok(m, NullValue)
    ELSE LET r == pop_operand(m)
         IN IF r.st # "Ok" THEN r ELSE op_pop(r.m, amount - 1)

\* assign_value addressing from the bottom of the stack instead of stack_start.
assign_value_ignoring_frame(m, value, address) ==
    IF address.t = "Local"
    THEN IF address.a < Len(m.operands)
         THEN Ok([m EXCEPT !.operands[address.a + 1] = value], NullValue)
         ELSE Panic(m, "index out of bounds")
    ELSE Panic(m, "not implemented")

assign_value(m, value, address) ==
    LET stack_start == current_frame(m).stack_start
    IN IF address.t = "Local"
       THEN IF stack_start + address.a < Len(m.operands)
            THEN Ok([m EXCEPT !.operands[stack_start + address.a + 1] = value], NullValue)
            ELSE Panic(m, "index out of bounds")
       ELSE Panic(m, "not implemented")

\* op_asg popping the address from the top and the value from beneath it.
op_asg_address_first(m) ==
    LET ad == pop_address(m)
    IN IF ad.st # "Ok" THEN ad
       ELSE LET v == pop_operand(ad.m)
            IN IF v.st # "Ok" THEN v
               ELSE assign_value(v.m, v.val, ad.val)

op_asg(m) ==
    LET v == pop_operand(m)
    IN IF v.st # "Ok" THEN v
       ELSE LET ad == pop_address(v.m)
            IN IF ad.st # "Ok" THEN ad
               ELSE assign_value(ad.m, v.val, ad.val)

\* get_local_variable reading from the bottom of the stack instead of stack_start.
get_local_variable_ignoring_frame(m, local_address) ==
    IF local_address < Len(m.operands)
    THEN Ok(push_operand(m, m.operands[local_address + 1]), NullValue)
    ELSE Err(m, "StackOverflow")

get_local_variable(m, local_address) ==
    LET stack_start == current_frame(m).stack_start
    IN IF stack_start + local_address < Len(m.operands)
       THEN Ok(push_operand(m, m.operands[stack_start + local_address + 1]), NullValue)
       ELSE Err(m, "StackOverflow")

get_global_variable(m, name) ==
    IF name \in STD_FUNCTIONS
    THEN Ok(push_operand(m, BuiltIn(name)), NullValue)
    ELSE Panic(m, "This global variable is not defined.")

op_get(m) ==
    LET ad == pop_address(m)
    IN IF ad.st # "Ok" THEN ad
       ELSE CASE ad.val.t = "Local" -> get_local_variable(ad.m, ad.val.a)
              [] ad.val.t = "Global" -> get_global_variable(ad.m, ad.val.a)
              [] OTHER -> Panic(ad.m, "not implemented")

(***************************************************************************)
(* Calls (crates/vm/src/call.rs).                                          *)
(***************************************************************************)
EnterFnBody == [t |-> "EnterFnBody", a |-> 0, b |-> 0]
InlineFn == [t |-> "InlineFn", a |-> 0, b |-> 0]

add_call_frame(m, frame) == [m EXCEPT !.call_stack = Append(@, frame)]

remove_call_frame(m) ==
    LET frame == current_frame(m)
    IN [m EXCEPT !.call_stack = Front(@),
                 !.operands = IF Len(@) > frame.stack_start
                              THEN SubSeq(@, 1, frame.stack_start) ELSE @,
                 !.ip = frame.return_ip]

op_call(m) ==
    LET c == pop_operand(m)
    IN IF c.st # "Ok" THEN c
       ELSE CASE c.val.t = "Function" ->
                   LET arity == program[c.val.a].arity
                   IN IF Len(c.m.operands) < arity THEN Err(c.m, "StackOverflow")
                      ELSE Ok(add_call_frame(c.m,
                                 [stack_start |-> Len(c.m.operands) - arity,
                                  fn |-> c.val.a,
                                  return_ip |-> m.ip]), EnterFnBody)
              [] c.val.t = "BuiltIn" -> Ok(push_operand(c.m, Num(0)), InlineFn)
              [] OTHER -> Err(c.m, "ExpectedCallable")

(***************************************************************************)
(* crates/vm/src/lib.rs: move_pointer and the arms of tick.                *)
(***************************************************************************)
\* move_pointer stopping at position 0 instead of failing.
move_pointer_saturating(m, distance) ==
    IF m.ip + distance >= 0 THEN Ok([m EXCEPT !.ip = @ + distance], NullValue)
    ELSE Ok([m EXCEPT !.ip = 0], NullValue)

move_pointer(m, distance) ==
    IF distance > 0 THEN Ok([m EXCEPT !.ip = @ + distance], NullValue)
    ELSE IF m.ip >= -distance THEN Ok([m EXCEPT !.ip = @ + distance], NullValue)
    ELSE Err(m, "StackOverflow")

\* The Jif arm jumping when the condition is true.
op_jif_when_true(m, distance) ==
    LET c == pop_operand(m)
    IN IF c.st # "Ok" THEN c
       ELSE LET b == to_bool(c.m, c.val)
            IN IF b.st # "Ok" THEN b
               ELSE IF b.val.a # 0 THEN move_pointer(c.m, distance)
               ELSE Ok(c.m, NullValue)

op_jif(m, distance) ==
    LET c == pop_operand(m)
    IN IF c.st # "Ok" THEN c
       ELSE LET b == to_bool(c.m, c.val)
            IN IF b.st # "Ok" THEN b
               ELSE IF b.val.a = 0 THEN move_pointer(c.m, distance)
               ELSE Ok(c.m, NullValue)

\* The Block arm without saving and restoring the block's result.
op_block_without_result(m, amount) == op_pop(m, amount)

op_block(m, amount) ==
    LET block_result == pop_operand(m)
    IN IF block_result.st # "Ok" THEN block_result
       ELSE LET r == op_pop(block_result.m, amount)
            IN IF r.st # "Ok" THEN r
               ELSE Ok(push_operand(r.m, block_result.val), NullValue)

\* The Return arm without pushing the result back.
op_return_without_result(m) ==
    LET result == pop_operand(m)
    IN IF result.st # "Ok" THEN result
       ELSE Ok(remove_call_frame(result.m), NullValue)

op_return(m) ==
    LET result == pop_operand(m)
    IN IF result.st # "Ok" THEN result
       ELSE Ok(push_operand(remove_call_frame(result.m), result.val), NullValue)

\* dispatch with the Sub arm wired to op_add.
dispatch_sub_as_add(m, next) ==
    CASE next.op = "Constant" -> op_constant(m, next.a)
      [] next.op = "Add" -> op_add(m)
      [] next.op = "Sub" -> op_add(m)
      [] next.op = "Mul" -> op_mul(m)
      [] next.op = "Div" -> op_div(m)
      [] next.op = "Mod" -> op_mod(m)
      [] next.op = "Jif" -> op_jif(m, next.a)
      [] next.op = "Pop" -> op_pop(m, next.a)
      [] next.op = "Block" -> op_block(m, next.a)
      [] next.op = "Break" -> move_pointer(m, next.a)
      [] next.op = "Get" -> op_get(m)
      [] next.op = "Asg" -> op_asg(m)
      [] next.op = "Return" -> op_return(m)
      [] next.op = "Null" -> Ok(push_operand(m, NullValue), NullValue)
      [] OTHER -> Panic(m, "not yet implemented")

\* The arms of `match next` that end in the default pointer increment.
dispatch(m, next) ==
    CASE next.op = "Constant" -> op_constant(m, next.a)
      [] next.op = "Add" -> op_add(m)
      [] next.op = "Sub" -> op_sub(m)
      [] next.op = "Mul" -> op_mul(m)
      [] next.op = "Div" -> op_div(m)
      [] next.op = "Mod" -> op_mod(m)
      [] next.op = "Jif" -> op_jif(m, next.a)
      [] next.op = "Pop" -> op_pop(m, next.a)
      [] next.op = "Block" -> op_block(m, next.a)
      [] next.op = "Break" -> move_pointer(m, next.a)
      [] next.op = "Get" -> op_get(m)
      [] next.op = "Asg" -> op_asg(m)
      [] next.op = "Return" -> op_return(m)
      [] next.op = "Null" -> Ok(push_operand(m, NullValue), NullValue)
      [] OTHER -> Panic(m, "not yet implemented")

FinishProgram == [t |-> "FinishProgram", a |-> 0, b |-> 0]
ContinueExecution == [t |-> "ContinueExecution", a |-> 0, b |-> 0]

\* tick with the Jp arm falling through to the default pointer increment.
tick_jp_incrementing(m) ==
    IF m.call_stack = <<>> THEN Panic(m, "Callstack is empty")
    ELSE LET opcodes == program[current_frame(m).fn].opcodes
         IN IF ~(m.ip < Len(opcodes)) THEN Ok(m, FinishProgram)
            ELSE LET next == opcodes[m.ip + 1]
                     r == CASE next.op = "Jp" -> move_pointer(m, next.a)
                            [] next.op = "Call" -> op_call(m)
                            [] OTHER -> dispatch(m, next)
                 IN IF r.st # "Ok" THEN r
                    ELSE IF next.op = "Call" /\ r.val = EnterFnBody
                         THEN Ok([r.m EXCEPT !.ip = 0], ContinueExecution)
                    ELSE LET a == move_pointer(r.m, 1)
                         IN IF a.st # "Ok" THEN a ELSE Ok(a.m, ContinueExecution)

\* tick without the default pointer increment after Pop.
tick_pop_without_increment(m) ==
    IF m.call_stack = <<>> THEN Panic(m, "Callstack is empty")
    ELSE LET opcodes == program[current_frame(m).fn].opcodes
         IN IF ~(m.ip < Len(opcodes)) THEN Ok(m, FinishProgram)
            ELSE LET next == opcodes[m.ip + 1]
                     r == CASE next.op = "Jp" -> move_pointer(m, next.a)
                            [] next.op = "Call" -> op_call(m)
                            [] OTHER -> dispatch(m, next)
                 IN IF r.st # "Ok" THEN r
                    ELSE IF next.op \in {"Jp", "Pop"} THEN Ok(r.m, ContinueExecution)
                    ELSE IF next.op = "Call" /\ r.val = EnterFnBody
                         THEN Ok([r.m EXCEPT !.ip = 0], ContinueExecution)
                    ELSE LET a == move_pointer(r.m, 1)
                         IN IF a.st # "Ok" THEN a ELSE Ok(a.m, ContinueExecution)

tick(m) ==
    IF m.call_stack = <<>> THEN Panic(m, "Callstack is empty")
    ELSE LET opcodes == program[current_frame(m).fn].opcodes
         IN IF ~(m.ip < Len(opcodes)) THEN Ok(m, FinishProgram)
            ELSE LET next == opcodes[m.ip + 1]
                     r == CASE next.op = "Jp" -> move_pointer(m, next.a)
                            [] next.op = "Call" -> op_call(m)
                            [] OTHER -> dispatch(m, next)
                 IN IF r.st # "Ok" THEN r
                    ELSE IF next.op = "Jp" THEN Ok(r.m, ContinueExecution)
                    ELSE IF next.op = "Call" /\ r.val = EnterFnBody
                         THEN Ok([r.m EXCEPT !.ip = 0], ContinueExecution)
                    ELSE LET a == move_pointer(r.m, 1)
                         IN IF a.st # "Ok" THEN a ELSE Ok(a.m, ContinueExecution)

(***************************************************************************)
(* VM::run as a state machine: the initial frame is pushed (Init), Tick is *)
(* one iteration of the loop, RunFinish pops the result after the loop.    *)
(***************************************************************************)
Machine == [operands |-> operands, call_stack |-> call_stack, ip |-> ip]

NoOpcode == Op("none")

Running == [kind |-> "running", cause |-> "", val |-> NullValue]

FetchedOpcode(m) ==
    IF m.call_stack # <<>> /\ m.ip < Len(program[current_frame(m).fn].opcodes)
    THEN program[current_frame(m).fn].opcodes[m.ip + 1]
    ELSE NoOpcode

\* History of the latest tick: the opcode it dispatched, the state it saw and
\* how it ended; calls holds, for each Call whose frame is still open, the
\* operand-stack length and call-frame depth that Call saw and the arity of
\* the function it entered; ret is the entry of the Call the latest Return ended.
NoCall == [len |-> -1, depth |-> -1, arity |-> -1]

LastOf(m, r) ==
    LET next == FetchedOpcode(m)
        entered == next.op = "Call" /\ r.st = "Ok" /\ Len(r.m.call_stack) > Len(m.call_stack)
        returned == next.op = "Return" /\ r.st = "Ok"
    IN [op |-> next, operands |-> m.operands, call_stack |-> m.call_stack,
        ip |-> m.ip, st |-> r.st,
        calls |-> IF entered
                  THEN Append(last.calls, [len |-> Len(m.operands),
                                           depth |-> Len(m.call_stack),
                                           arity |-> program[Top(m.operands).a].arity])
                  ELSE IF returned /\ last.calls # <<>> THEN Front(last.calls)
                  ELSE last.calls,
        ret |-> IF returned /\ last.calls # <<>> THEN Top(last.calls) ELSE NoCall]

\* The position of a run: its machine state, where it is in run, its outcome.
RunState(m, p, o) ==
    [operands |-> m.operands, call_stack |-> m.call_stack, ip |-> m.ip, pc |-> p, outcome |-> o]

\* VM.debug = None.
NewMachine == [operands |-> <<>>, call_stack |-> <<>>, ip |-> 0]

DebugOff == [enabled |-> FALSE, wrote |-> TRUE, plain |-> RunState(NewMachine, "idle", Running)]

\* VM::debug: without the trace nothing is written; with it a line goes to the
\* file and the write succeeds or fails (the failure is reported on stderr).
WriteOutcomes == IF debug.enabled THEN BOOLEAN ELSE {TRUE}

\* One iteration of the loop of run by the VM without the trace.
PlainTicked(p, r) ==
    IF r.st = "Ok"
    THEN RunState(r.m, IF r.val = FinishProgram THEN "finish" ELSE "loop", p.outcome)
    ELSE RunState(r.m, "done", [kind |-> IF r.st = "Err" THEN "error" ELSE "panic",
                                cause |-> r.cause, val |-> NullValue])

PlainTick(p) == IF p.pc # "loop" THEN p ELSE PlainTicked(p, tick(p))

\* The end of run by the VM without the trace.
PlainFinish(p) ==
    IF p.pc # "finish" THEN p
    ELSE LET result == pop_operand(p)
         IN RunState(result.m, "done",
                     IF result.st = "Ok"
                     THEN [kind |-> "value", cause |-> "", val |-> result.val]
                     ELSE [kind |-> "error", cause |-> result.cause, val |-> NullValue])

Traced(plain) ==
    \E wrote \in WriteOutcomes :
        debug' = IF debug.enabled THEN [debug EXCEPT !.wrote = wrote, !.plain = plain]
                 ELSE debug

\* The loop of run going on to the next opcode after a runtime error.
Ticked_ignoring_error(r) ==
    /\ operands' = r.m.operands
    /\ call_stack' = r.m.call_stack
    /\ ip' = r.m.ip + (IF r.st = "Err" THEN 1 ELSE 0)
    /\ last' = LastOf(Machine, r)
    /\ IF r.st # "Panic"
       THEN /\ pc' = IF r.st = "Ok" /\ r.val = FinishProgram THEN "finish" ELSE "loop"
            /\ outcome' = outcome
       ELSE /\ pc' = "done"
            /\ outcome' = [kind |-> "panic", cause |-> r.cause, val |-> NullValue]

\* The effect on run of a tick that returned r: `self.tick()?` ends run with
\* an error, FinishProgram leaves the loop, anything else goes round again.
Ticked(r) ==
    /\ operands' = r.m.operands
    /\ call_stack' = r.m.call_stack
    /\ ip' = r.m.ip
    /\ last' = LastOf(Machine, r)
    /\ IF r.st = "Ok"
       THEN /\ pc' = IF r.val = FinishProgram THEN "finish" ELSE "loop"
            /\ outcome' = outcome
       ELSE /\ pc' = "done"
            /\ outcome' = [kind |-> IF r.st = "Err" THEN "error" ELSE "panic",
                           cause |-> r.cause, val |-> NullValue]

Tick ==
    /\ pc = "loop"
    /\ Ticked(tick(Machine))
    /\ Traced(PlainTick(debug.plain))
    /\ UNCHANGED <<program, constants>>
    /\ UNCHANGED genvars
    /\ UNCHANGED parser

RunFinish ==
    /\ pc = "finish"
    /\ LET result == pop_operand(Machine)
       IN /\ operands' = result.m.operands
          /\ outcome' = IF result.st = "Ok"
                        THEN [kind |-> "value", cause |-> "", val |-> result.val]
                        ELSE [kind |-> "error", cause |-> result.cause, val |-> NullValue]
    /\ pc' = "done"
    /\ Traced(PlainFinish(debug.plain))
    /\ UNCHANGED <<program, constants, call_stack, ip, last>>
    /\ UNCHANGED genvars
    /\ UNCHANGED parser

NextVM == Tick \/ RunFinish

SeqsUpTo(S, n) == UNION {[1..k -> S] : k \in 0..n}

Function(arity, opcodes) == [arity |-> arity, opcodes |-> opcodes]


NoValue == [kind |-> "none"]

NoPatch == [index |-> -1, n |-> -1]

HistInit ==
    [op |-> "new", name |-> "", val |-> NoValue, st |-> "Ok",
     open |-> {}, written |-> <<>>, patched |-> NoPatch]

\* The parser at rest: no input and nothing parsed.
NoResult == [st |-> "none"]

ParserIdle == parser = [tokens |-> <<>>, pos |-> 0, result |-> NoResult]

\* While the VM runs the generator is at rest, in its freshly built state.
GenIdle == scopes = <<>> /\ chunk = <<>> /\ hist = HistInit

\* VM::new followed by the start of VM::run(main_fn): the initial frame is pushed.
InitVM(programs, pool) ==
    /\ program \in programs
    /\ constants = pool
    /\ operands = <<>>
    /\ call_stack = <<[stack_start |-> 0, fn |-> 1, return_ip |-> 0]>>
    /\ ip = 0
    /\ pc = "loop"
    /\ outcome = Running
    /\ last = [op |-> NoOpcode, operands |-> <<>>, call_stack |-> <<>>, ip |-> 0,
               st |-> "Ok", calls |-> <<>>, ret |-> NoCall]
    /\ debug = DebugOff
    /\ GenIdle
    /\ ParserIdle

(***************************************************************************)
(* Arithmetic programs: every chunk of at most MaxArithLen opcodes over    *)
(* four constants and the five binary arithmetic opcodes.                  *)
(***************************************************************************)
ArithPool == <<Num(2), Num(3), Num(0), Bool(TRUE)>>

ArithOpcodes == {Constant(i) : i \in 0..3} \cup
                {Op(n) : n \in {"Add", "Sub", "Mul", "Div", "Mod"}}

MainOnly(mains) == {<<Function(0, o)>> : o \in mains}

SpecArith ==
    InitVM(MainOnly(SeqsUpTo(ArithOpcodes, MaxArithLen)), ArithPool) /\ [][NextVM]_vars

(***************************************************************************)
(* Block programs: three constants x, y, z and Block(0..2).                *)
(***************************************************************************)
BlockPool == <<Num(1), Num(2), Num(3)>>

BlockOpcodes == {Constant(i) : i \in 0..2} \cup {Block(n) : n \in 0..2}

SpecBlock ==
    InitVM(MainOnly(SeqsUpTo(BlockOpcodes, MaxBlockLen)), BlockPool) /\ [][NextVM]_vars

\* Chunks of Constant and Pop(n), as in memory.rs test::op_pop.
PopOpcodes == {Constant(i) : i \in 0..2} \cup {Pop(n) : n \in 0..3}

SpecPop ==
    InitVM(MainOnly(SeqsUpTo(PopOpcodes, MaxPopLen)), BlockPool) /\ [][NextVM]_vars

(***************************************************************************)
(* Memory programs: Asg and Get on Local(0) and Local(1), run either as    *)
(* the main chunk (stack_start = 0) or as the body of a function of arity  *)
(* 1 called with two operands on the stack (stack_start = 1).              *)
(***************************************************************************)
MemPool == <<Num(127), Local(0), Num(7), Local(1), Callable(2)>>

MemOpcodes == {Constant(i) : i \in 0..3} \cup {Op("Asg"), Op("Get")}

MemCaller == <<Constant(0), Constant(2), Constant(4), Op("Call")>>

MemPrograms(maxlen) ==
    MainOnly(SeqsUpTo(MemOpcodes, maxlen)) \cup
    {<<Function(0, MemCaller), Function(1, o)>> : o \in SeqsUpTo(MemOpcodes, maxlen - 1)}

SpecMem == InitVM(MemPrograms(MaxMemLen), MemPool) /\ [][NextVM]_vars

(***************************************************************************)
(* Global programs: Get on a defined and on an undefined global name.      *)
(***************************************************************************)
GlobalPool == <<Global(1), Global(2), Num(7)>>

GlobalOpcodes == {Constant(i) : i \in 0..2} \cup {Op("Get"), Op("Call"), Pop(1)}

SpecGlobal ==
    InitVM(MainOnly(SeqsUpTo(GlobalOpcodes, MaxGlobalLen)), GlobalPool) /\ [][NextVM]_vars

(***************************************************************************)
(* Call programs: a main chunk that may call f (arity 0 or 1), which may   *)
(* call g (arity 0).                                                       *)
(***************************************************************************)
CallPool == <<Num(7), Callable(2), Callable(3)>>

CallMainOpcodes == {Constant(0), Constant(1), Op("Call"), Op("Return")}

CalleeOpcodes == {Constant(0), Constant(2), Op("Call"), Op("Return")}

CallPrograms(mainlen, calleelen) ==
    {<<Function(0, o), Function(a, c), Function(0, <<Constant(0), Op("Return")>>)>> :
        o \in SeqsUpTo(CallMainOpcodes, mainlen),
        a \in 0..1,
        c \in SeqsUpTo(CalleeOpcodes, calleelen)}

SpecCall == InitVM(CallPrograms(MaxCallLen, MaxCalleeLen), CallPool) /\ [][NextVM]_vars

(***************************************************************************)
(* The entry point run(bytecode, debug) over the arithmetic programs, with *)
(* the trace on or off.  VM::new has run; StartRun is with_debug (when the *)
(* trace is on) followed by the start of VM::run.  DebugOptions::new       *)
(* removes an existing debug.gv and creates it anew, unwrapping both       *)
(* results: the file system lets it succeed or fail.                       *)
(***************************************************************************)
InitialFrame == [stack_start |-> 0, fn |-> 1, return_ip |-> 0]

InitDebug ==
    /\ program \in MainOnly(SeqsUpTo(ArithOpcodes, MaxArithLen))
    /\ constants = ArithPool
    /\ operands = <<>>
    /\ call_stack = <<>>
    /\ ip = 0
    /\ pc = "new"
    /\ outcome = Running
    /\ last = [op |-> NoOpcode, operands |-> <<>>, call_stack |-> <<>>, ip |-> 0,
               st |-> "Ok", calls |-> <<>>, ret |-> NoCall]
    /\ debug \in {[enabled |-> e, wrote |-> TRUE, plain |-> RunState(NewMachine, "new", Running)] :
                     e \in BOOLEAN}
    /\ GenIdle
    /\ ParserIdle

StartRun ==
    /\ pc = "new"
    /\ \E created \in (IF debug.enabled THEN BOOLEAN ELSE {TRUE}) :
          IF created
          THEN /\ call_stack' = <<InitialFrame>>
               /\ pc' = "loop"
               /\ outcome' = outcome
          ELSE /\ call_stack' = call_stack
               /\ pc' = "done"
               /\ outcome' = [kind |-> "panic", val |-> NullValue,
                              cause |-> "unwrap on an Err value"]
    /\ debug' = [debug EXCEPT !.plain =
                    RunState([NewMachine EXCEPT !.call_stack = <<InitialFrame>>], "loop", Running)]
    /\ UNCHANGED <<program, constants, operands, ip, last>>
    /\ UNCHANGED genvars
    /\ UNCHANGED parser

NextDebug == StartRun \/ Tick \/ RunFinish

SpecDebug == InitDebug /\ [][NextDebug]_vars

(***************************************************************************)
(* Jump programs: every chunk of at most MaxFlowLen opcodes over Constant, *)
(* Jif, Jp and Break with forward, zero and backward distances, Pop, Add   *)
(* and Return.  A backward jump can loop, so a tick starts only while the  *)
(* operand stack holds at most MaxOperands values.                         *)
(***************************************************************************)
FlowPool == <<Bool(TRUE), Bool(FALSE), Num(1)>>

FlowOpcodes ==
    {Constant(0), Constant(1), Constant(2), Jif(2), Jif(0), Jif(-1),
     Jp(2), Jp(0), Jp(-1), Break(1), Pop(1), Op("Add"), Op("Return")}

BoundedTick == Len(operands) <= MaxOperands /\ Tick

NextFlow == BoundedTick \/ RunFinish

SpecFlow == InitVM(MainOnly(SeqsUpTo(FlowOpcodes, MaxFlowLen)), FlowPool) /\ [][NextFlow]_vars

(***************************************************************************)
(* Straight-line programs: every chunk of at most MaxStepLen opcodes over  *)
(* the opcodes that are neither jumps nor calls nor returns.               *)
(***************************************************************************)
StepPool == <<Num(2), Num(3), Local(0), Bool(TRUE)>>

StepOpcodes ==
    {Constant(0), Constant(1), Constant(2), Constant(3), Op("Add"), Op("Mod"),
     Pop(1), Block(1), Op("Get"), Op("Asg"), Op("Null")}

SpecStep == InitVM(MainOnly(SeqsUpTo(StepOpcodes, MaxStepLen)), StepPool) /\ [][NextVM]_vars

(***************************************************************************)
(* crates/bytecode/src/state.rs: Scope and GeneratorState.                 *)
(*                                                                         *)
(* Results of generator operations are [scopes, st, val]: st is "Ok" or    *)
(* "Panic" (an expect/unwrap that fails), val the returned value.          *)
(***************************************************************************)
None == -1

NewScope(scope_type, starting_index) ==
    [scope_type |-> scope_type, variables |-> <<>>, returned |-> FALSE,
     patches |-> {}, starting_index |-> starting_index, upvalues |-> <<>>]

Variable(name, depth, index) ==
    [name |-> name, depth |-> depth, index |-> index, upvalue_index |-> None]

GOk(sc, v) == [scopes |-> sc, st |-> "Ok", val |-> v]
GPanic(sc, msg) == [scopes |-> sc, st |-> "Panic", val |-> [kind |-> "panic", msg |-> msg]]

\* Index (1-based) of the first variable of the scope called name, or 0.
search_var(scope, name) ==
    LET hits == {i \in 1..Len(scope.variables) : scope.variables[i].name = name}
    IN IF hits = {} THEN 0 ELSE CHOOSE i \in hits : \A j \in hits : i <= j

make_enclosed_upvalue(scope, upvalue_index, is_local, name) ==
    [scope EXCEPT !.upvalues = Append(@, [upvalue_index |-> upvalue_index,
                                          is_local |-> is_local,
                                          is_ref |-> TRUE,
                                          local_index |-> 0,
                                          name |-> name])]

\* close_variable(index): the Upvalue it returns; the scope is left as it is.
close_variable(scope, i) ==
    LET var == scope.variables[i]
        upvalues_len == Len(scope.upvalues)
    IN [local_index |-> var.index,
        upvalue_index |-> IF upvalues_len = 0 THEN 0 ELSE upvalues_len - 1,
        is_local |-> TRUE,
        is_ref |-> FALSE,
        name |-> var.name]

NonBlock(sc) == {i \in 1..Len(sc) : sc[i].scope_type # "Block"}

\* usize::MAX, the value 0 - 1 wraps to (the largest integer of the model stands for it).
UsizeMax == 2147483647

\* depth(): count of non-Block scopes minus one; with no such scope the usize
\* subtraction overflows, which panics with overflow checks and wraps without.
depth(sc, overflow_checks) ==
    LET count == Cardinality(NonBlock(sc))
    IN IF count > 0 THEN GOk(sc, count - 1)
       ELSE IF overflow_checks THEN GPanic(sc, "attempt to subtract with overflow")
       ELSE GOk(sc, UsizeMax)

RECURSIVE SumVariables(_, _, _)
\* Sum of variables.len() over scopes[lo..hi].
SumVariables(sc, lo, hi) ==
    IF lo > hi THEN 0 ELSE Len(sc[hi].variables) + SumVariables(sc, lo, hi - 1)

\* The scopes.iter().rev().skip(1).take_while(Block or Global) of declare_var:
\* the lowest index k such that scopes[k..Len-1] are all Block or Global.
TakeWhileStart(sc) ==
    LET stops == {i \in 1..(Len(sc) - 1) : sc[i].scope_type \notin {"Block", "Global"}}
    IN IF stops = {} THEN 1 ELSE 1 + CHOOSE i \in stops : \A j \in stops : j <= i

\* declare_var numbering every variable from 0 within its own scope.
declare_var_without_offset(sc, name, overflow_checks) ==
    LET d == depth(sc, overflow_checks)
    IN IF d.st # "Ok" THEN d
       ELSE IF sc = <<>> THEN GPanic(sc, "Tried to access scope above the global one.")
       ELSE GOk([sc EXCEPT ![Len(sc)].variables =
                               Append(@, Variable(name, d.val, Len(Top(sc).variables)))],
                NoValue)

declare_var(sc, name, overflow_checks) ==
    LET d == depth(sc, overflow_checks)
    IN IF d.st # "Ok" THEN d
       ELSE IF sc = <<>> THEN GPanic(sc, "Tried to access scope above the global one.")
       ELSE LET stack_offset == IF Top(sc).scope_type = "Function" THEN 0
                                ELSE SumVariables(sc, TakeWhileStart(sc), Len(sc) - 1)
                scope == Top(sc)
                var == Variable(name, d.val, stack_offset + Len(scope.variables))
            IN GOk([sc EXCEPT ![Len(sc)].variables = Append(@, var)], NoValue)

RECURSIVE CloseScopes(_, _, _, _, _)
\* The second loop of search_upvalue_var over scopes_to_close reversed: todo
\* holds the scope indices outermost first, position counts the iterations.
CloseScopes(sc, todo, position, upvalue, name) ==
    IF todo = <<>> THEN GOk(sc, upvalue)
    ELSE LET i == Head(todo)
             closed == make_enclosed_upvalue(sc[i], upvalue.upvalue_index, position = 0, name)
         IN CloseScopes([sc EXCEPT ![i] = closed], Tail(todo), position + 1,
                        Top(closed.upvalues), name)

RECURSIVE Ascending(_)
Ascending(S) ==
    IF S = {} THEN <<>>
    ELSE LET lo == CHOOSE i \in S : \A j \in S : i <= j
         IN <<lo>> \o Ascending(S \ {lo})

search_upvalue_var(sc, name) ==
    IF sc = <<>> THEN GPanic(sc, "Tried to access scope above the global one.")
    ELSE LET existing == {i \in 1..Len(Top(sc).upvalues) : Top(sc).upvalues[i].name = name}
         IN IF existing # {}
            THEN GOk(sc, Top(sc).upvalues[CHOOSE i \in existing : \A j \in existing : i <= j])
            ELSE LET declaring == {i \in NonBlock(sc) : search_var(sc[i], name) # 0}
                 IN IF declaring = {} THEN GPanic(sc, "called Option::unwrap() on a None value")
                    ELSE LET found == CHOOSE i \in declaring : \A j \in declaring : j <= i
                             upvalue == close_variable(sc[found], search_var(sc[found], name))
                             scopes_to_close == {i \in NonBlock(sc) : i >= found}
                         IN CloseScopes(sc, Ascending(scopes_to_close), 0, upvalue, name)

\* search_local_var looking through the enclosing scopes as well, innermost first.
search_local_var_in_any_scope(sc, name) ==
    IF sc = <<>> THEN GPanic(sc, "called Option::unwrap() on a None value")
    ELSE LET declaring == {i \in 1..Len(sc) : search_var(sc[i], name) # 0}
         IN IF declaring = {} THEN GOk(sc, NoValue)
            ELSE LET i == CHOOSE i \in declaring : \A j \in declaring : j <= i
                 IN GOk(sc, [kind |-> "Variable",
                             var |-> sc[i].variables[search_var(sc[i], name)]])

search_local_var(sc, name) ==
    IF sc = <<>> THEN GPanic(sc, "called Option::unwrap() on a None value")
    ELSE LET i == search_var(Top(sc), name)
         IN IF i = 0 THEN GOk(sc, NoValue)
            ELSE GOk(sc, [kind |-> "Variable", var |-> Top(sc).variables[i]])

find_var_address(sc, name) ==
    LET local_variable == search_local_var(sc, name)
    IN IF local_variable.st # "Ok" THEN local_variable
       ELSE IF local_variable.val # NoValue
            THEN GOk(sc, [kind |-> "Local", index |-> local_variable.val.var.index])
       ELSE LET u == search_upvalue_var(sc, name)
            IN IF u.st # "Ok" THEN u
               ELSE GOk(u.scopes, [kind |-> "Upvalue", index |-> u.val.upvalue_index,
                                   is_ref |-> u.val.is_ref])

enter_scope(sc, scope_type, starting_index) ==
    GOk(Append(sc, NewScope(scope_type, starting_index)), NoValue)

leave_scope(sc) ==
    IF sc = <<>> THEN GPanic(sc, "Tried to leave nest in top scope")
    ELSE GOk(Front(sc), [kind |-> "Scope", scope |-> Top(sc)])

(***************************************************************************)
(* crates/bytecode/src/lib.rs: BytecodeGenerator and the jump patch        *)
(* protocol over the current chunk.                                        *)
(***************************************************************************)
\* write_opcode: the chunk with the opcode appended; its index is the old length.
write_opcode(ch, opcode) == Append(ch, opcode)

add_patch(sc, patch) ==
    IF sc = <<>> THEN GPanic(sc, "Tried to access scope above the global one.")
    ELSE GOk([sc EXCEPT ![Len(sc)].patches = @ \cup {patch}], NoValue)

remove_patch(sc, patch) ==
    IF sc = <<>> THEN GPanic(sc, "Tried to access scope above the global one.")
    ELSE GOk([sc EXCEPT ![Len(sc)].patches = @ \ {patch}], NoValue)

\* curr_index giving the number of opcodes of the chunk.
curr_index_as_length(ch) == Len(ch)

\* curr_index: the index of the last opcode of the chunk.
curr_index(ch) == IF Len(ch) = 0 THEN 0 ELSE Len(ch) - 1

\* patch measuring the distance from the chunk's length instead of from the
\* index of its last opcode.
patched_chunk_from_length(ch, patch) ==
    [ch EXCEPT ![patch.index + 1].a = Len(ch) - patch.index]

\* patch resolving, besides the jump at patch.index, every later jump that
\* still carries the placeholder.
patched_chunk_and_later_jumps(ch, patch) ==
    [i \in 1..Len(ch) |->
        IF i = patch.index + 1 \/ (i > patch.index + 1 /\ ch[i].op \in {"Jif", "Jp"} /\ ch[i].a = 0)
        THEN [ch[i] EXCEPT !.a = curr_index(ch) - (i - 1)]
        ELSE ch[i]]

\* patch: the chunk with the jump at patch.index carrying the distance from it
\* to the last opcode written.
patched_chunk(ch, patch) ==
    [ch EXCEPT ![patch.index + 1].a = curr_index(ch) - patch.index]

(***************************************************************************)
(* The generator as a state machine.  hist records the latest operation:   *)
(* its name, its argument, what it returned and whether it panicked; open  *)
(* is the set of patches emitted and not yet resolved, and                 *)
(* written counts, per open patch, the opcodes written since it was        *)
(* emitted; patched is the latest resolved patch with that count.          *)
(***************************************************************************)
Names == {"a", "b"}

VMIdle ==
    /\ program = <<>>
    /\ constants = <<>>
    /\ operands = <<>>
    /\ call_stack = <<>>
    /\ ip = 0
    /\ pc = "idle"
    /\ outcome = Running
    /\ last = [op |-> NoOpcode, operands |-> <<>>, call_stack |-> <<>>, ip |-> 0,
               st |-> "Ok", calls |-> <<>>, ret |-> NoCall]
    /\ debug = DebugOff

\* GeneratorState::new() starts with the Global scope; BytecodeGenerator::new()
\* takes GeneratorState::default(), whose scope stack is empty.
InitGen ==
    /\ scopes \in {<<NewScope("Global", 0)>>, <<>>}
    /\ chunk = <<>>
    /\ hist = HistInit
    /\ VMIdle
    /\ ParserIdle

Alive == hist.st = "Ok"

\* The effect of a resolver operation with result r.
Resolved(op, name, r) ==
    /\ scopes' = r.scopes
    /\ hist' = [hist EXCEPT !.op = op, !.name = name, !.val = r.val, !.st = r.st]
    /\ UNCHANGED chunk
    /\ UNCHANGED vmvars
    /\ UNCHANGED parser

EnterScope ==
    /\ Alive
    /\ Len(scopes) < MaxScopes
    /\ \E scope_type \in {"Function", "Block"} :
          Resolved("enter_scope", scope_type, enter_scope(scopes, scope_type, 0))

LeaveScope ==
    /\ Alive
    /\ Resolved("leave_scope", "", leave_scope(scopes))

RECURSIVE TotalVariables(_)
TotalVariables(sc) ==
    IF sc = <<>> THEN 0 ELSE Len(Head(sc).variables) + TotalVariables(Tail(sc))

RECURSIVE TotalUpvalues(_)
TotalUpvalues(sc) ==
    IF sc = <<>> THEN 0 ELSE Len(Head(sc).upvalues) + TotalUpvalues(Tail(sc))

DeclareVar ==
    /\ Alive
    /\ TotalVariables(scopes) < MaxVars
    /\ \E name \in Names, overflow_checks \in BOOLEAN :
          Resolved("declare_var", name, declare_var(scopes, name, overflow_checks))

UpvalueRoom == TotalUpvalues(scopes) < MaxUpvalues

FindVarAddress ==
    /\ Alive
    /\ UpvalueRoom
    /\ \E name \in Names :
          Resolved("find_var_address", name, find_var_address(scopes, name))

SearchUpvalueVar ==
    /\ Alive
    /\ UpvalueRoom
    /\ \E name \in Names :
          Resolved("search_upvalue_var", name, search_upvalue_var(scopes, name))

NextResolver ==
    EnterScope \/ LeaveScope \/ DeclareVar \/ FindVarAddress \/ SearchUpvalueVar

SpecResolver == InitGen /\ [][NextResolver]_vars

Bump(written) == [p \in DOMAIN written |-> written[p] + 1]

WriteOpcode ==
    /\ Alive
    /\ Len(chunk) < MaxChunk
    /\ \E opcode \in {Op("Add"), Op("Get")} :
          /\ chunk' = write_opcode(chunk, opcode)
          /\ hist' = [hist EXCEPT !.op = "write_opcode", !.name = opcode.op,
                                  !.val = NoValue,
                                  !.written = Bump(@)]
    /\ UNCHANGED scopes
    /\ UNCHANGED vmvars
    /\ UNCHANGED parser

EmitPatch ==
    /\ Alive
    /\ Len(chunk) < MaxChunk
    /\ \E opcode \in {Jif(0), Jp(0)} :
          LET patch == [index |-> Len(chunk)]
              r == add_patch(scopes, patch)
          IN /\ chunk' = write_opcode(chunk, opcode)
             /\ scopes' = r.scopes
             /\ hist' = [hist EXCEPT !.op = "emit_patch", !.name = opcode.op,
                                     !.st = r.st,
                                     !.val = [kind |-> "Patch", index |-> patch.index],
                                     !.open = IF r.st = "Ok" THEN @ \cup {patch.index} ELSE @,
                                     !.written = IF r.st = "Ok"
                                                 THEN [p \in DOMAIN @ \cup {patch.index} |->
                                                          IF p = patch.index THEN 0 ELSE @[p] + 1]
                                                 ELSE @]
    /\ UNCHANGED vmvars
    /\ UNCHANGED parser

PatchJump ==
    /\ Alive
    /\ \E index \in hist.open :
          LET patch == [index |-> index]
              r == remove_patch(scopes, patch)
          IN /\ chunk' = patched_chunk(chunk, patch)
             /\ scopes' = r.scopes
             /\ hist' = [hist EXCEPT !.op = "patch", !.name = chunk[index + 1].op,
                                     !.st = r.st, !.val = NoValue,
                                     !.open = @ \ {index},
                                     !.written = [p \in DOMAIN @ \ {index} |-> @[p]],
                                     !.patched = [index |-> index, n |-> hist.written[index]]]
    /\ UNCHANGED vmvars
    /\ UNCHANGED parser

NextPatch == WriteOpcode \/ EmitPatch \/ PatchJump

SpecPatch == InitGen /\ [][NextPatch]_vars

(***************************************************************************)
(* crates/bytecode/src/expr/mod.rs: generate for ExprKind::If, and the     *)
(* generated chunk run by the VM.  The condition, the body and the else    *)
(* expression are given by the opcodes their own generate writes; an       *)
(* absent else_expr is the empty sequence.                                 *)
(***************************************************************************)
RECURSIVE write_opcodes(_, _)
write_opcodes(ch, opcodes) ==
    IF opcodes = <<>> THEN ch
    ELSE write_opcodes(write_opcode(ch, Head(opcodes)), Tail(opcodes))

\* generate(If): the chunk, the scopes and the indices of the Jif and of the
\* first opcode after the Jp, or the panic of the first emit_patch.
generate_if(sc, ch, condition, body, else_expr) ==
    LET c1 == write_opcodes(ch, condition)
        jif_patch == [index |-> Len(c1)]
        c2 == write_opcode(c1, Jif(0))
        s2 == add_patch(sc, jif_patch)
        c3 == write_opcodes(c2, body)
        jp_patch == [index |-> Len(c3)]
        c4 == write_opcode(c3, Jp(0))
        s4 == add_patch(s2.scopes, jp_patch)
        c5 == patched_chunk(c4, jp_patch)
        s5 == remove_patch(s4.scopes, jp_patch)
        c6 == write_opcodes(c5, else_expr)
        c7 == patched_chunk(c6, jif_patch)
        s7 == remove_patch(s5.scopes, jif_patch)
    IN IF s2.st # "Ok" THEN [scopes |-> sc, chunk |-> c2, st |-> s2.st, val |-> NoValue]
       ELSE [scopes |-> s7.scopes, chunk |-> c7, st |-> "Ok",
             val |-> [kind |-> "If", jif |-> jif_patch.index,
                      else_start |-> jp_patch.index + 1, end |-> Len(c7)]]

IfPool == <<Bool(TRUE), Bool(FALSE), Num(2), Num(3)>>

Conditions == {<<Constant(0)>>, <<Constant(1)>>}

Branches(minlen) ==
    {b \in SeqsUpTo({Constant(2), Constant(3)}, MaxBranchLen) : Len(b) >= minlen}

GenerateIf ==
    /\ hist.op = "new"
    /\ \E condition \in Conditions, body \in Branches(1), else_expr \in Branches(0) :
          LET r == generate_if(scopes, chunk, condition, body, else_expr)
          IN /\ scopes' = r.scopes
             /\ chunk' = r.chunk
             /\ hist' = [hist EXCEPT !.op = "generate_if", !.st = r.st, !.val = r.val]
    /\ UNCHANGED vmvars
    /\ UNCHANGED parser

\* The generated chunk becomes the main function handed to VM::run, which
\* pushes the initial frame.
RunCode ==
    /\ hist.op = "generate_if"
    /\ Alive
    /\ pc = "idle"
    /\ program' = <<Function(0, chunk)>>
    /\ constants' = IfPool
    /\ call_stack' = <<InitialFrame>>
    /\ pc' = "loop"
    /\ UNCHANGED <<operands, ip, outcome, last, debug>>
    /\ UNCHANGED genvars
    /\ UNCHANGED parser

NextIf == GenerateIf \/ RunCode \/ BoundedTick \/ RunFinish

SpecIf == InitGen /\ [][NextIf]_vars

\* Jumps emitted and resolved while scopes are entered and left: at most
\* MaxPatchScopes scopes deep and MaxPatchChunk jumps long.
ShallowEnterScope == Len(scopes) < MaxPatchScopes /\ EnterScope

ShortEmitPatch == Len(chunk) < MaxPatchChunk /\ EmitPatch

NextScopePatch == ShallowEnterScope \/ LeaveScope \/ ShortEmitPatch \/ PatchJump

SpecScopePatch == InitGen /\ [][NextScopePatch]_vars

(***************************************************************************)
(* crates/parser/src/parse/expr/mod.rs: parse_expression, the binding      *)
(* power loop over the token stream.  A token is a Number or an Operator   *)
(* named as in token/operator.rs; past the last token the parser peeks     *)
(* Eof.  Expressions are the Expr enum: Atom, Binary { lhs, op, rhs } and  *)
(* Unary { op, rhs }.                                                      *)
(***************************************************************************)
NumberToken(n) == [t |-> "Number", v |-> n]
OperatorToken(op) == [t |-> "Operator", v |-> op]
Eof == [t |-> "Eof", v |-> 0]

Atom(val) == [kind |-> "Atom", val |-> val]
Binary(lhs, op, rhs) == [kind |-> "Binary", lhs |-> lhs, op |-> op, rhs |-> rhs]
Unary(op, rhs) == [kind |-> "Unary", op |-> op, rhs |-> rhs]

BinaryOperators ==
    {"Plus", "Minus", "Multiply", "Divide", "Modulo", "Exponent", "Compare",
     "BangCompare", "Less", "LessEqual", "Greater", "GreaterEqual", "Or", "And"}

UnaryOperators == {"Minus", "Bang"}

\* infix_bp: the (left, right) binding powers of a binary operator; the right
\* one is the larger.
infix_bp(operator) ==
    CASE operator \in {"Or", "And"} -> [l_bp |-> 1, r_bp |-> 2]
      [] operator \in {"Compare", "BangCompare", "Less", "LessEqual",
                       "Greater", "GreaterEqual"} -> [l_bp |-> 3, r_bp |-> 4]
      [] operator \in {"Plus", "Minus"} -> [l_bp |-> 5, r_bp |-> 6]
      [] operator \in {"Multiply", "Divide", "Modulo"} -> [l_bp |-> 7, r_bp |-> 8]
      [] operator = "Exponent" -> [l_bp |-> 9, r_bp |-> 10]

\* prefix_bp: the right binding power of a prefix operator.
prefix_bp(operator) ==
    CASE operator \in UnaryOperators -> [r_bp |-> 5]

ParseOk(expr, pos) == [st |-> "Ok", expr |-> expr, pos |-> pos, cause |-> ""]
ParseErr(pos, cause) == [st |-> "Err", expr |-> Atom(0), pos |-> pos, cause |-> cause]

peek(tokens, pos) == IF pos < Len(tokens) THEN tokens[pos + 1] ELSE Eof

\* parse_atom: a Number becomes an Atom and is consumed.
parse_atom(tokens, pos) ==
    IF peek(tokens, pos).t = "Number"
    THEN ParseOk(Atom(peek(tokens, pos).v), pos + 1)
    ELSE ParseErr(pos, "UnexpectedToken")

RECURSIVE parse_expression_bp(_, _, _)
RECURSIVE parse_infix(_, _, _, _)

\* The loop parsing every right operand with the operator's left binding power.
parse_infix_rhs_with_l_bp(tokens, pos, lhs, min_bp) ==
    LET operator == peek(tokens, pos)
    IN IF operator.t = "Eof" THEN ParseOk(lhs, pos)
       ELSE IF operator.t # "Operator" THEN ParseErr(pos, "UnexpectedToken")
       ELSE IF infix_bp(operator.v).l_bp < min_bp THEN ParseOk(lhs, pos)
       ELSE LET rhs == parse_expression_bp(tokens, pos + 1, infix_bp(operator.v).l_bp)
            IN IF rhs.st # "Ok" THEN rhs
               ELSE parse_infix(tokens, rhs.pos, Binary(lhs, operator.v, rhs.expr), min_bp)

\* The loop never stopping at an operator that binds less than min_bp.
parse_infix_ignoring_min_bp(tokens, pos, lhs, min_bp) ==
    LET operator == peek(tokens, pos)
    IN IF operator.t = "Eof" THEN ParseOk(lhs, pos)
       ELSE IF operator.t # "Operator" THEN ParseErr(pos, "UnexpectedToken")
       ELSE LET rhs == parse_expression_bp(tokens, pos + 1, infix_bp(operator.v).r_bp)
            IN IF rhs.st # "Ok" THEN rhs
               ELSE parse_infix(tokens, rhs.pos, Binary(lhs, operator.v, rhs.expr), min_bp)

\* The loop of parse_expression_bp: while the next token is an operator whose
\* left binding power is at least min_bp, consume it, parse its right operand
\* with its right binding power and make lhs the Binary of the two.
parse_infix(tokens, pos, lhs, min_bp) ==
    LET operator == peek(tokens, pos)
    IN IF operator.t = "Eof" THEN ParseOk(lhs, pos)
       ELSE IF operator.t # "Operator" THEN ParseErr(pos, "UnexpectedToken")
       ELSE IF infix_bp(operator.v).l_bp < min_bp THEN ParseOk(lhs, pos)
       ELSE LET rhs == parse_expression_bp(tokens, pos + 1, infix_bp(operator.v).r_bp)
            IN IF rhs.st # "Ok" THEN rhs
               ELSE parse_infix(tokens, rhs.pos, Binary(lhs, operator.v, rhs.expr), min_bp)

\* parse_expression_bp: the left operand (a prefix operator applied to an
\* expression, or an atom), then the loop.
parse_expression_bp(tokens, pos, min_bp) ==
    LET first == peek(tokens, pos)
        lhs == IF first.t = "Operator"
               THEN LET rhs == parse_expression_bp(tokens, pos + 1, prefix_bp(first.v).r_bp)
                    IN IF rhs.st # "Ok" THEN rhs
                       ELSE ParseOk(Unary(first.v, rhs.expr), rhs.pos)
               ELSE parse_atom(tokens, pos)
    IN IF lhs.st # "Ok" THEN lhs
       ELSE parse_infix(tokens, lhs.pos, lhs.expr, min_bp)

parse_expression(tokens) == parse_expression_bp(tokens, 0, 0)

\* The tokens of 1 op 2 op 3 ..., after an optional prefix operator.
RECURSIVE Chain(_, _)
Chain(tokens, ops) ==
    IF ops = <<>> THEN tokens
    ELSE Chain(tokens \o <<OperatorToken(Head(ops)),
                          NumberToken((Len(tokens) + 3) \div 2)>>, Tail(ops))

Inputs(maxops) ==
    {Chain(<<NumberToken(1)>>, ops) : ops \in SeqsUpTo(BinaryOperators, maxops)} \cup
    {<<OperatorToken(op)>> \o Chain(<<NumberToken(1)>>, ops) :
        op \in UnaryOperators, ops \in SeqsUpTo(BinaryOperators, maxops - 1)}

\* Parser::new(input) on one of the inputs.
InitParser ==
    /\ VMIdle
    /\ scopes = <<>> /\ chunk = <<>> /\ hist = HistInit
    /\ \E tokens \in Inputs(MaxChainOps) :
          parser = [tokens |-> tokens, pos |-> 0, result |-> NoResult]

ParseExpression ==
    /\ parser.result = NoResult
    /\ LET result == parse_expression(parser.tokens)
       IN parser' = [parser EXCEPT !.pos = result.pos, !.result = result]
    /\ UNCHANGED vmvars
    /\ UNCHANGED genvars

NextParser == ParseExpression

SpecParser == InitParser /\ [][NextParser]_vars

(***************************************************************************)
(* crates/bytecode/src/expr/mod.rs: generate for Atom, Binary and Unary    *)
(* expressions (the If arm is generate_if above), applied to what the      *)
(* parser returned.                                                        *)
(***************************************************************************)
\* op.kind.into(): the fixed mapping from operator to Opcode.
binary_opcode(op) ==
    CASE op = "Plus" -> Op("Add")
      [] op = "Minus" -> Op("Sub")
      [] op = "Multiply" -> Op("Mul")
      [] op = "Divide" -> Op("Div")
      [] op = "Modulo" -> Op("Mod")
      [] op = "Exponent" -> Op("Pow")
      [] op = "Compare" -> Op("Eq")
      [] op = "BangCompare" -> Op("Ne")
      [] op = "Less" -> Op("Lt")
      [] op = "LessEqual" -> Op("Le")
      [] op = "Greater" -> Op("Gt")
      [] op = "GreaterEqual" -> Op("Ge")
      [] op = "Or" -> Op("Or")
      [] op = "And" -> Op("And")

unary_opcode(op) ==
    CASE op = "Minus" -> Op("Neg")
      [] op = "Bang" -> Op("Not")

RECURSIVE generate(_, _)

\* generate writing the operator of a Binary between its two operands.
generate_operator_before_rhs(ch, expr) ==
    CASE expr.kind = "Atom" -> write_opcode(ch, Constant(expr.val))
      [] expr.kind = "Binary" ->
            generate(write_opcode(generate(ch, expr.lhs), binary_opcode(expr.op)), expr.rhs)
      [] expr.kind = "Unary" ->
            write_opcode(generate(ch, expr.rhs), unary_opcode(expr.op))

\* generate: an Atom becomes the Constant of its value; a Binary its lhs code,
\* its rhs code and the operator's opcode; a Unary its rhs code and the
\* operator's opcode.
generate(ch, expr) ==
    CASE expr.kind = "Atom" -> write_opcode(ch, Constant(expr.val))
      [] expr.kind = "Binary" ->
            write_opcode(generate(generate(ch, expr.lhs), expr.rhs), binary_opcode(expr.op))
      [] expr.kind = "Unary" ->
            write_opcode(generate(ch, expr.rhs), unary_opcode(expr.op))

GenerateExpr ==
    /\ parser.result # NoResult
    /\ parser.result.st = "Ok"
    /\ hist.op = "new"
    /\ chunk' = generate(chunk, parser.result.expr)
    /\ hist' = [hist EXCEPT !.op = "generate"]
    /\ UNCHANGED scopes
    /\ UNCHANGED vmvars
    /\ UNCHANGED parser

NextGenerate == ParseExpression \/ GenerateExpr

SpecGenerate == InitParser /\ [][NextGenerate]_vars

(***************************************************************************)
(* Claims about the virtual machine.                                       *)
(***************************************************************************)
ArithNames == {"Add", "Sub", "Mul", "Div", "Mod"}

Finite(x) == x.b # 0

\* r is the standard numeric result of x name y, stated without the VM's own
\* arithmetic: by cross-multiplication for + - * /, and for % as the remainder
\* with the sign of the dividend left by an integral quotient.
IsStandardResult(name, x, y, r) ==
    CASE name = "Add" -> r.b > 0 /\ r.a * x.b * y.b = (x.a * y.b + y.a * x.b) * r.b
      [] name = "Sub" -> r.b > 0 /\ r.a * x.b * y.b = (x.a * y.b - y.a * x.b) * r.b
      [] name = "Mul" -> r.b > 0 /\ r.a * x.b * y.b = x.a * y.a * r.b
      [] name = "Div" -> IF y.a = 0 THEN r.b = 0 /\ r.a = Sign(x.a)
                         ELSE r.b > 0 /\ r.a * x.b * y.a = x.a * y.b * r.b
      [] name = "Mod" -> IF y.a = 0 THEN r = NaN
                         ELSE /\ r.b > 0
                              /\ r.a = 0 \/ Sign(r.a) = Sign(x.a)
                              /\ Abs(r.a) * y.b < Abs(y.a) * r.b
                              /\ ((x.a * r.b - r.a * x.b) * y.b) % (x.b * r.b * Abs(y.a)) = 0

TwoNumbersOnTop(s) ==
    Len(s) >= 2 /\ IsNumber(s[Len(s)]) /\ IsNumber(s[Len(s) - 1])

C2_BlockKeepsTop ==
    (last.op.op = "Block" /\ Len(last.operands) >= last.op.a + 1) =>
        /\ last.st = "Ok"
        /\ operands = Append(SubSeq(last.operands, 1, Len(last.operands) - last.op.a - 1),
                             Top(last.operands))

\* Witness of C2: Constant(x), Constant(y), Constant(z), Block(2) has run and
\* left exactly z.
C2_Witness ==
    /\ program[1].opcodes = <<Constant(0), Constant(1), Constant(2), Block(2)>>
    /\ last.op = Block(2)
    /\ last.operands = <<Num(1), Num(2), Num(3)>>
    /\ operands = <<Num(3)>>

LocalSlot(frames, address) == Top(frames).stack_start + address.a + 1

\* C3: after a successful Asg with address Local(i) and value v, the slot at
\* stack_start + i of the current frame holds v, every other remaining slot is
\* unchanged, and pushing Local(i) and executing Get in that state reads v.
C3_AssignmentVisible ==
    (last.op.op = "Asg" /\ last.st = "Ok") =>
        LET s == last.operands
            v == Top(s)
            address == s[Len(s) - 1]
            slot == LocalSlot(last.call_stack, address)
            read == op_get(push_operand(Machine, address))
        IN /\ address.t = "Local"
           /\ Len(operands) = Len(s) - 2
           /\ operands[slot] = v
           /\ \A k \in 1..Len(operands) : k # slot => operands[k] = s[k]
           /\ read.st = "Ok"
           /\ read.m.operands = Append(operands, v)

\* Witness of C3: Constant(127), Constant(Local(0)), Constant(7), Asg and then
\* Constant(Local(0)), Get has read back 7.
C3_Witness ==
    /\ program[1].opcodes = <<Constant(0), Constant(1), Constant(2), Op("Asg"),
                              Constant(1), Op("Get")>>
    /\ last.op = Op("Get")
    /\ last.st = "Ok"
    /\ operands = <<Num(7), Num(7)>>

ResultInFrame == Len(last.operands) > Top(last.call_stack).stack_start

C8_SingleTerminalValue ==
    pc = "done" =>
        /\ outcome.kind \in {"value", "error"}
        /\ outcome.kind = "value" => operands = <<>>

AddressedLocal(s, below) == s[Len(s) - below]

\* C9: Get or Asg on Local(i) with stack_start + i outside the operands left
\* after the opcode's pops ends the run with a runtime error, never a crash.
C9_OutOfRangeLocalIsError ==
    LET s == last.operands
        below == IF last.op.op = "Asg" THEN 1 ELSE 0
    IN (/\ last.op.op \in {"Get", "Asg"}
        /\ Len(s) >= below + 1
        /\ AddressedLocal(s, below).t = "Local"
        /\ LocalSlot(last.call_stack, AddressedLocal(s, below)) > Len(s) - below - 1) =>
           /\ last.st = "Err"
           /\ pc = "done"
           /\ outcome.kind = "error"

\* C10: Get on Global(name) with name absent from the standard-library table
\* ends the run with a structured runtime error carrying a cause.
C10_UndefinedGlobalIsError ==
    (/\ last.op.op = "Get"
     /\ last.operands # <<>>
     /\ Top(last.operands).t = "Global"
     /\ Top(last.operands).a \notin STD_FUNCTIONS) =>
        /\ last.st = "Err"
        /\ pc = "done"
        /\ outcome.kind = "error"
        /\ outcome.cause # ""

(***************************************************************************)
(* Claims about the generator.                                             *)
(***************************************************************************)
\* C1: when patch(p) resolves a jump emitted by emit_patch, the jump at p.index
\* carries a distance of exactly N, the number of opcodes written to the chunk
\* between the emit_patch and the patch, and it is still the jump emitted.
C1_PatchDistanceIsN ==
    (hist.op = "patch" /\ hist.st = "Ok") =>
        /\ chunk[hist.patched.index + 1].a = hist.patched.n
        /\ chunk[hist.patched.index + 1].op = hist.name

\* Witness of C1: Jif(0), then two opcodes, then patch has given Jif(2).
C1_Witness ==
    /\ hist.op = "patch"
    /\ hist.st = "Ok"
    /\ hist.patched = [index |-> 0, n |-> 2]
    /\ chunk = <<Jif(2), Op("Add"), Op("Get")>>

LinksOf(scope, name) == {i \in 1..Len(scope.upvalues) : scope.upvalues[i].name = name}

\* The innermost non-Block scope declaring name (0 when there is none).
DeclaringScope(sc, name) ==
    LET declaring == {i \in NonBlock(sc) : search_var(sc[i], name) # 0}
    IN IF declaring = {} THEN 0 ELSE CHOOSE i \in declaring : \A j \in declaring : j <= i

FunctionsInside(sc, f) == {i \in (f + 1)..Len(sc) : sc[i].scope_type = "Function"}

\* C6: a search_upvalue_var for a name declared in function scope F, started
\* in a function scope nested K levels inside F with no Upvalue for the name
\* recorded yet, adds exactly one link to each of the K nested function scopes
\* and none to F or to a Block, and exactly the outermost of these links (the
\* one of the function directly inside F) has is_local = TRUE.
C6_ChainOfKLinks ==
    [][\A name \in Names :
          LET f == DeclaringScope(scopes, name)
              inside == FunctionsInside(scopes, f)
          IN (/\ hist'.op = "search_upvalue_var" /\ hist'.name = name /\ hist'.st = "Ok"
              /\ f # 0
              /\ scopes[f].scope_type = "Function"
              /\ Top(scopes).scope_type = "Function" /\ Len(scopes) > f
              /\ \A i \in 1..Len(scopes) : LinksOf(scopes[i], name) = {}) =>
                 /\ \A i \in 1..Len(scopes) :
                       Cardinality(LinksOf(scopes'[i], name)) = IF i \in inside THEN 1 ELSE 0
                 /\ \A i \in inside :
                       \A k \in LinksOf(scopes'[i], name) :
                          scopes'[i].upvalues[k].is_local = (\A j \in inside : i <= j)
      ]_vars

\* The current frame: the nearest enclosing Function or Global scope (0 when
\* there is none) and the Block scopes open inside it.
FrameBase(sc) ==
    LET bases == {i \in 1..Len(sc) : sc[i].scope_type \in {"Function", "Global"}}
    IN IF bases = {} THEN 0 ELSE CHOOSE i \in bases : \A j \in bases : j <= i

RECURSIVE FrameVariables(_, _)
FrameVariables(sc, lo) ==
    IF lo > Len(sc) THEN <<>> ELSE sc[lo].variables \o FrameVariables(sc, lo + 1)

\* C7: the stack indices of the variables declared in the current frame are
\* pairwise distinct and are exactly 0..n-1, n being the number of variables of
\* the frame's Function (or Global) scope and of the Block scopes open inside it.
C7_FrameIndicesContiguous ==
    FrameBase(scopes) # 0 =>
        LET frame == FrameVariables(scopes, FrameBase(scopes))
        IN /\ \A i, j \in 1..Len(frame) : i # j => frame[i].index # frame[j].index
           /\ {frame[i].index : i \in 1..Len(frame)} = 0..(Len(frame) - 1)

(***************************************************************************)
(* Claims about the dispatch loop.                                         *)
(***************************************************************************)
\* C11: when a tick returns a runtime error, run ends at once with that same
\* error as its outcome, and once run has ended nothing more is dispatched.
C11_FirstErrorEndsRun ==
    [][/\ (pc = "loop" /\ tick(Machine).st = "Err") =>
             /\ pc' = "done"
             /\ outcome' = [kind |-> "error", cause |-> tick(Machine).cause, val |-> NullValue]
       /\ pc # "done"
       /\ (pc = "loop" /\ last.st = "Err") => FALSE]_vars

\* Witness of C11: a tick failed on a non-Number operand while opcodes were
\* still left in the chunk, and the run has ended with that error.
C11_Witness ==
    /\ pc = "done"
    /\ last.st = "Err"
    /\ outcome = [kind |-> "error", cause |-> "ExpectedNumber", val |-> NullValue]
    /\ last.ip + 1 < Len(program[1].opcodes)

JifCondition == Top(last.operands).a # 0

\* C12 as stated: a successful Jif(distance) pops one Bool and moves the
\* instruction pointer by distance when it is false, by 1 when it is true.
C12_JifAdvancesByDistance ==
    (last.op.op = "Jif" /\ last.st = "Ok") =>
        /\ Top(last.operands).t = "Bool"
        /\ operands = Front(last.operands)
        /\ ip = last.ip + (IF JifCondition THEN 1 ELSE last.op.a)

\* C12 amended: Jif(distance) pops one Bool; when it is true the instruction
\* pointer advances by 1; when it is false it advances by distance + 1 (the
\* jump, then the default increment), and the tick fails with a runtime error
\* and no increment when old ip + distance is negative.
C12_JifSkipsDistanceThenOne ==
    (last.op.op = "Jif" /\ last.operands # <<>> /\ Top(last.operands).t = "Bool") =>
        IF ~JifCondition /\ last.ip + last.op.a < 0
        THEN last.st = "Err" /\ ip = last.ip
        ELSE /\ last.st = "Ok"
             /\ operands = Front(last.operands)
             /\ call_stack = last.call_stack
             /\ ip = last.ip + (IF JifCondition THEN 1 ELSE last.op.a + 1)

\* Witness of C12: Jif(2) at index 1 found false on top and the pointer is at 4.
C12_Witness ==
    /\ last.op = Jif(2)
    /\ last.st = "Ok"
    /\ last.ip = 1
    /\ Top(last.operands) = Bool(FALSE)
    /\ ip = 4

\* C13: Jp(distance) moves the instruction pointer by exactly distance, with
\* no further increment, and leaves the operand stack and the call-frame
\* stack unchanged; when old ip + distance is negative the tick fails with a
\* runtime error and nothing changes.
C13_JpMovesByDistance ==
    last.op.op = "Jp" =>
        /\ operands = last.operands
        /\ call_stack = last.call_stack
        /\ IF last.ip + last.op.a >= 0
           THEN last.st = "Ok" /\ ip = last.ip + last.op.a
           ELSE last.st = "Err" /\ ip = last.ip

\* Witness of C13: Jp(2) at index 1 with an operand on the stack has moved the
\* pointer to 3.
C13_Witness ==
    /\ last.op = Jp(2)
    /\ last.st = "Ok"
    /\ last.ip = 1
    /\ last.operands # <<>>
    /\ ip = 3

JumpCallReturn == {"Jif", "Jp", "Break", "Call", "Return"}

\* C14: a successful tick that dispatches an opcode other than Jif, Jp, Break,
\* Call and Return advances the instruction pointer by exactly 1 and leaves
\* the call-frame stack unchanged.
C14_DefaultIncrement ==
    (last.op # NoOpcode /\ last.op.op \notin JumpCallReturn /\ last.st = "Ok") =>
        /\ ip = last.ip + 1
        /\ call_stack = last.call_stack

\* Witness of C14: a Pop(1) at index 2 succeeded and the pointer is at 3.
C14_Witness ==
    /\ last.op = Pop(1)
    /\ last.st = "Ok"
    /\ last.ip = 2
    /\ ip = 3

\* C15: while run is executing (the initial frame pushed, run not returned)
\* the call-frame stack is never empty.
C15_CallStackNeverEmpty ==
    pc \in {"loop", "finish"} => call_stack # <<>>

\* C16: tick reports FinishProgram only when the instruction pointer is past
\* the end of the chunk and the initial frame is the only frame.
C16_FinishOnlyInInitialFrame ==
    pc = "finish" =>
        /\ Len(call_stack) = 1
        /\ ip >= Len(program[1].opcodes)

\* The machine state, the position in run and the outcome of the run with
\* the trace are those of the run of the same program without it.
SameAsPlain == RunState(Machine, pc, outcome) = debug.plain

\* C17: the trace is observational: the run with the trace on goes through
\* the same instruction-pointer, operand-stack and call-frame-stack states
\* and ends with the same outcome as the run of the same program with the
\* trace off, also when writing a trace line fails.
C17_TraceIsObservational == (debug.enabled /\ pc # "new") => SameAsPlain

\* C18: a leave_scope that returns normally returns a Scope whose patch set
\* is empty; a scope still owning an open Patch is never popped normally.
C18_NoOpenPatchAtLeave ==
    (hist.op = "leave_scope" /\ hist.st = "Ok") => hist.val.scope.patches = {}

\* C19 as stated: the distance written by patch(p) is the chunk's length at
\* that moment minus p.index.
C19_DistanceFromLength ==
    (hist.op = "patch" /\ hist.st = "Ok") =>
        chunk[hist.patched.index + 1].a = Len(chunk) - hist.patched.index

\* C19 amended: the distance written by patch(p) is the index of the last
\* opcode of the chunk at that moment minus p.index, that is the chunk's
\* length minus 1 minus p.index.
C19_DistanceFromLastIndex ==
    (hist.op = "patch" /\ hist.st = "Ok") =>
        chunk[hist.patched.index + 1].a = (Len(chunk) - 1) - hist.patched.index

\* Witness of C19: a Jp emitted at index 1 of a chunk of four opcodes is
\* resolved to Jp(2).
C19_Witness ==
    /\ hist.op = "patch"
    /\ hist.st = "Ok"
    /\ hist.patched.index = 1
    /\ Len(chunk) = 4
    /\ chunk[2] = Jp(2)

(***************************************************************************)
(* Claims about generated conditionals.                                    *)
(***************************************************************************)
\* C20: in the code generated for If, the Jif executed with a false condition
\* continues at the first opcode of the else branch (directly after the
\* construct when there is no else).
C20_FalseConditionRunsElse ==
    (/\ hist.op = "generate_if"
     /\ last.op.op = "Jif"
     /\ last.st = "Ok"
     /\ last.ip = hist.val.jif
     /\ Top(last.operands) = Bool(FALSE)) =>
        ip = hist.val.else_start

\* C21: in the code generated for an If with an else branch, the Jp that
\* follows the then branch lands on the first opcode after the else branch.
C21_JpLandsAfterConstruct ==
    (/\ hist.op = "generate_if"
     /\ last.op.op = "Jp"
     /\ last.st = "Ok"
     /\ hist.val.else_start < hist.val.end
     /\ last.ip = hist.val.else_start - 1) =>
        ip = hist.val.end

\* C22: Pop(n) dispatched on at least n operands removes exactly the top n
\* and leaves the operands beneath them as they were; dispatched on fewer than
\* n operands it ends with a runtime error, not with a panic.
C22_PopRemovesTopN ==
    (last.op.op = "Pop") =>
        IF Len(last.operands) >= last.op.a
        THEN /\ last.st = "Ok"
             /\ operands = SubSeq(last.operands, 1, Len(last.operands) - last.op.a)
        ELSE /\ last.st = "Err"
             /\ outcome.kind = "error"
             /\ outcome.cause = "PoppedFromEmptyStack"

\* Witness of C22: three constants followed by Pop(3) have left an empty stack.
C22_Witness ==
    /\ program[1].opcodes = <<Constant(0), Constant(1), Constant(2), Pop(3)>>
    /\ last.op = Pop(3)
    /\ last.operands = <<Num(1), Num(2), Num(3)>>
    /\ last.st = "Ok"
    /\ operands = <<>>

\* C23: a successful Get on Local(i) replaces the address on top of the stack
\* by a copy of the value at stack_start + i of the current frame: every slot
\* beneath the popped address, the addressed one included, is unchanged and the
\* stack is as long as before.
C23_GetCopiesAddressedSlot ==
    (last.op.op = "Get" /\ last.st = "Ok" /\ Top(last.operands).t = "Local") =>
        LET s == last.operands
            slot == LocalSlot(last.call_stack, Top(s))
        IN /\ slot < Len(s)
           /\ operands = Append(Front(s), s[slot])
           /\ Len(operands) = Len(s)
           /\ call_stack = last.call_stack

\* Witness of C23: inside a called function whose frame starts at slot 1,
\* Get on Local(0) has pushed a copy of the value held in that slot.
C23_Witness ==
    /\ last.op.op = "Get"
    /\ last.st = "Ok"
    /\ Top(last.call_stack).stack_start = 1
    /\ last.operands = <<Num(127), Num(7), Local(0)>>
    /\ operands = <<Num(127), Num(7), Num(7)>>

\* C24: a jump emitted by emit_patch keeps its placeholder for as long as its
\* patch is open, whatever is written meanwhile; write_opcode and emit_patch
\* only append one opcode to the chunk, and patch(p) changes nothing but the
\* opcode at p.index and leaves the chunk's length alone.
C24_OnlyPatchTouchesPlaceholder ==
    [][/\ \A p \in hist.open \cap hist'.open :
             /\ chunk'[p + 1] = chunk[p + 1]
             /\ chunk'[p + 1].a = 0
       /\ hist'.op \in {"write_opcode", "emit_patch"} =>
             /\ Len(chunk') = Len(chunk) + 1
             /\ SubSeq(chunk', 1, Len(chunk)) = chunk
       /\ hist'.op = "patch" =>
             /\ Len(chunk') = Len(chunk)
             /\ \A i \in 1..Len(chunk) :
                   i # hist'.patched.index + 1 => chunk'[i] = chunk[i]]_vars

\* Witness of C24: Jif and Jp were emitted, one opcode was written and the Jp
\* was resolved, while the Jif, still open, keeps its placeholder.
C24_Witness ==
    /\ hist.op = "patch"
    /\ hist.st = "Ok"
    /\ hist.open = {0}
    /\ hist.patched.index = 1
    /\ chunk = <<Jif(0), Jp(1), Op("Add")>>

(***************************************************************************)
(* Claims about declaration and resolution of names.                       *)
(***************************************************************************)
\* The scopes enclosing the current one that count for its offset: from the
\* nearest enclosing Function (excluded) or Global (included) scope upwards.
EnclosingUpToBoundary(sc) ==
    LET enclosing == 1..(Len(sc) - 1)
        functions == {i \in enclosing : sc[i].scope_type = "Function"}
        globals == {i \in enclosing : sc[i].scope_type = "Global"}
        lo == IF functions \cup globals = {} THEN 1
              ELSE LET b == CHOOSE i \in functions \cup globals :
                                \A j \in functions \cup globals : j <= i
                   IN IF b \in functions THEN b + 1 ELSE b
    IN lo..(Len(sc) - 1)

RECURSIVE VariableCount(_, _)
VariableCount(sc, S) ==
    IF S = {} THEN 0
    ELSE LET i == CHOOSE i \in S : TRUE
         IN Len(sc[i].variables) + VariableCount(sc, S \ {i})

C26_LocalOnlyFromCurrentScope ==
    [][(hist'.op = "find_var_address" /\ scopes # <<>>) =>
          LET name == hist'.name
              current == Top(scopes).variables
              declared == {i \in 1..Len(current) : current[i].name = name}
              u == search_upvalue_var(scopes, name)
          IN IF declared # {}
             THEN /\ hist'.st = "Ok"
                  /\ hist'.val.kind = "Local"
                  /\ \E i \in declared : hist'.val.index = current[i].index
                  /\ scopes' = scopes
             ELSE /\ hist'.st = u.st
                  /\ scopes' = u.scopes
                  /\ u.st = "Ok" =>
                        hist'.val = [kind |-> "Upvalue", index |-> u.val.upvalue_index,
                                     is_ref |-> u.val.is_ref]]_vars

\* Witness of C26: a, declared in the Global scope only, was resolved from a
\* Block opened in it and came back as an Upvalue address.
C26_Witness ==
    /\ hist.op = "find_var_address"
    /\ hist.name = "a"
    /\ hist.st = "Ok"
    /\ hist.val.kind = "Upvalue"
    /\ Len(scopes) = 2
    /\ scopes[1].scope_type = "Global"
    /\ search_var(scopes[1], "a") # 0
    /\ scopes[2].scope_type = "Block"
    /\ search_var(scopes[2], "a") = 0

\* C27: a search_upvalue_var(name) that directly follows a completed
\* search_upvalue_var(name) from the same current scope returns the same
\* Upvalue and leaves every scope, its upvalue list included, as it was.
C27_SecondSearchIsIdempotent ==
    [][(/\ hist.op = "search_upvalue_var"
        /\ hist.st = "Ok"
        /\ hist'.op = "search_upvalue_var"
        /\ hist'.name = hist.name) =>
          /\ hist'.st = "Ok"
          /\ hist'.val = hist.val
          /\ scopes' = scopes]_vars

(***************************************************************************)
(* Claims about the expression parser.                                     *)
(***************************************************************************)
\* Binding strength of the operator groups, weakest first: or/and,
\* comparison, +/-, * / %, **.
Strength(op) ==
    CASE op \in {"Or", "And"} -> 1
      [] op \in {"Compare", "BangCompare", "Less", "LessEqual", "Greater", "GreaterEqual"} -> 2
      [] op \in {"Plus", "Minus"} -> 3
      [] op \in {"Multiply", "Divide", "Modulo"} -> 4
      [] op = "Exponent" -> 5

\* The input is 1 op 2 op 3 ... with no prefix operator; ChainOps are its operators.
IsChain(tokens) == tokens # <<>> /\ tokens[1].t = "Number"

ChainOps(tokens) == [i \in 1..((Len(tokens) - 1) \div 2) |-> tokens[2 * i].v]

RECURSIVE LeftNested(_)
\* ((1 op1 2) op2 3) ... for the operators ops.
LeftNested(ops) ==
    IF ops = <<>> THEN Atom(1)
    ELSE Binary(LeftNested(SubSeq(ops, 1, Len(ops) - 1)), ops[Len(ops)], Atom(Len(ops) + 1))

\* C28: a chain of binary operators of one precedence group, the exponent
\* operator included, is parsed left-associatively: 1 op1 2 op2 3 ... becomes
\* (... ((1 op1 2) op2 3) ...).
C28_EqualPrecedenceIsLeftAssociative ==
    (/\ parser.result # NoResult
     /\ IsChain(parser.tokens)
     /\ \A i, j \in DOMAIN ChainOps(parser.tokens) :
           Strength(ChainOps(parser.tokens)[i]) = Strength(ChainOps(parser.tokens)[j])) =>
        /\ parser.result.st = "Ok"
        /\ parser.result.pos = Len(parser.tokens)
        /\ parser.result.expr = LeftNested(ChainOps(parser.tokens))

\* Witness of C28: 1 ** 2 ** 3 was parsed as (** (** 1 2) 3).
C28_Witness ==
    /\ parser.tokens = Chain(<<NumberToken(1)>>, <<"Exponent", "Exponent">>)
    /\ parser.result # NoResult
    /\ parser.result.expr = Binary(Binary(Atom(1), "Exponent", Atom(2)), "Exponent", Atom(3))

\* C29: of two adjacent binary operators of different precedence the tighter
\* binding one is grouped first, whichever comes first in the input:
\* 1 op1 2 op2 3 becomes ((1 op1 2) op2 3) when op1 binds tighter and
\* (1 op1 (2 op2 3)) when op2 does.
C29_TighterOperatorGroupsFirst ==
    (/\ parser.result # NoResult
     /\ IsChain(parser.tokens)
     /\ Len(ChainOps(parser.tokens)) = 2
     /\ Strength(ChainOps(parser.tokens)[1]) # Strength(ChainOps(parser.tokens)[2])) =>
        LET op1 == ChainOps(parser.tokens)[1]
            op2 == ChainOps(parser.tokens)[2]
        IN /\ parser.result.st = "Ok"
           /\ parser.result.expr =
                 IF Strength(op1) > Strength(op2)
                 THEN Binary(Binary(Atom(1), op1, Atom(2)), op2, Atom(3))
                 ELSE Binary(Atom(1), op1, Binary(Atom(2), op2, Atom(3)))

\* Witness of C29: 1 + 2 * 3 was parsed as (+ 1 (* 2 3)).
C29_Witness ==
    /\ parser.tokens = Chain(<<NumberToken(1)>>, <<"Plus", "Multiply">>)
    /\ parser.result # NoResult
    /\ parser.result.expr = Binary(Atom(1), "Plus", Binary(Atom(2), "Multiply", Atom(3)))

Distances == {-1, 0, 1, 2}

\* C31: move_pointer(distance) never moves the instruction pointer before
\* position 0: called where ip + distance is negative it returns the
\* StackOverflow error and leaves ip alone, otherwise it succeeds with
\* ip + distance; so does the Jp that has just been dispatched, and ip is
\* never negative.
C31_PointerNeverBeforeZero ==
    /\ ip >= 0
    /\ \A distance \in Distances :
          LET moved == move_pointer(Machine, distance)
          IN IF ip + distance < 0
             THEN moved.st = "Err" /\ moved.cause = "StackOverflow" /\ moved.m.ip = ip
             ELSE moved.st = "Ok" /\ moved.m.ip = ip + distance
    /\ (last.op.op = "Jp" /\ last.ip + last.op.a < 0) =>
          /\ last.st = "Err"
          /\ outcome.kind = "error"
          /\ outcome.cause = "StackOverflow"
          /\ ip = last.ip

\* Witness of C31: Jp(-1) dispatched at position 0 has ended the run with the
\* StackOverflow error, the pointer still at 0.
C31_Witness ==
    /\ last.op = Jp(-1)
    /\ last.ip = 0
    /\ last.st = "Err"
    /\ outcome.cause = "StackOverflow"
    /\ ip = 0

(***************************************************************************)
(* Claims about captured variables.                                        *)
(***************************************************************************)
\* C32: after search_upvalue_var(name) has captured a variable, the Variable
\* called name in the declaring scope is marked closed: its upvalue_index is
\* set.
C32_CapturedVariableIsMarked ==
    (/\ hist.op = "search_upvalue_var"
     /\ hist.st = "Ok"
     /\ DeclaringScope(scopes, hist.name) # 0) =>
        LET scope == scopes[DeclaringScope(scopes, hist.name)]
        IN scope.variables[search_var(scope, hist.name)].upvalue_index # None

\* C33: every Upvalue stored in a scope's upvalue list carries as its
\* upvalue_index its own (0-based) position in that list.
C33_UpvalueIndexIsOwnPosition ==
    \A i \in 1..Len(scopes) :
        \A k \in 1..Len(scopes[i].upvalues) :
            scopes[i].upvalues[k].upvalue_index = k - 1

\* C37: two find_var_address calls made one after the other from the same
\* scope for two different names that both resolve to Upvalue addresses give
\* two different indices.
C37_DistinctNamesDistinctUpvalues ==
    [][(/\ hist.op = "find_var_address"
        /\ hist.st = "Ok"
        /\ hist.val.kind = "Upvalue"
        /\ hist'.op = "find_var_address"
        /\ hist'.st = "Ok"
        /\ hist'.val.kind = "Upvalue"
        /\ hist'.name # hist.name) =>
          hist'.val.index # hist.val.index]_vars

(***************************************************************************)
(* Claims about the bottom of the scope stack.                             *)
(***************************************************************************)
\* C34: leave_scope called while the Global scope is the only scope on the
\* stack fails fatally: it does not return and the Global scope stays.
C34_GlobalScopeIsNeverLeft ==
    [][(/\ Len(scopes) = 1
        /\ scopes[1].scope_type = "Global"
        /\ hist'.op = "leave_scope") =>
          /\ hist'.st = "Panic"
          /\ scopes' = scopes]_vars

(***************************************************************************)
(* Claims about generated expressions.                                     *)
(***************************************************************************)
RECURSIVE Nodes(_)
\* The number of atoms and operators of an expression.
Nodes(expr) ==
    CASE expr.kind = "Atom" -> 1
      [] expr.kind = "Binary" -> Nodes(expr.lhs) + Nodes(expr.rhs) + 1
      [] expr.kind = "Unary" -> Nodes(expr.rhs) + 1

RECURSIVE Operands(_, _)
\* Reading a chunk as postfix code: a Constant is an operand, the opcode of a
\* unary operator takes the latest operand and the opcode of a binary operator
\* the latest two, the earlier one as its lhs.  The result is the stack of
\* expressions the chunk computes (<<>> when an opcode lacks operands).
Operands(ch, stack) ==
    IF ch = <<>> THEN stack
    ELSE LET opcode == Head(ch)
             n == Len(stack)
             binary == {op \in BinaryOperators : binary_opcode(op) = opcode}
             unary == {op \in UnaryOperators : unary_opcode(op) = opcode}
         IN IF opcode.op = "Constant" THEN Operands(Tail(ch), Append(stack, Atom(opcode.a)))
            ELSE IF binary # {} /\ n >= 2
            THEN Operands(Tail(ch),
                          Append(SubSeq(stack, 1, n - 2),
                                 Binary(stack[n - 1], CHOOSE op \in binary : TRUE, stack[n])))
            ELSE IF unary # {} /\ n >= 1
            THEN Operands(Tail(ch),
                          Append(SubSeq(stack, 1, n - 1),
                                 Unary(CHOOSE op \in unary : TRUE, stack[n])))
            ELSE <<>>

\* C35: the chunk generated for an expression holds one opcode per atom and
\* per operator, and every operator's opcode comes after all the code of its
\* operands, lhs before rhs: read as postfix code the chunk is the expression.
C35_OperatorAfterOperands ==
    hist.op = "generate" =>
        /\ Len(chunk) = Nodes(parser.result.expr)
        /\ Operands(chunk, <<>>) = <<parser.result.expr>>

\* Witness of C35: 1 + 2 * 3 has become Constant 1, Constant 2, Constant 3,
\* Mul, Add.
C35_Witness ==
    /\ hist.op = "generate"
    /\ parser.result.expr = Binary(Atom(1), "Plus", Binary(Atom(2), "Multiply", Atom(3)))
    /\ chunk = <<Constant(1), Constant(2), Constant(3), Op("Mul"), Op("Add")>>

\* C36: a freshly constructed generator holds exactly the Global scope, and
\* declare_var (with its depth() and current_scope()) never fails for want
\* of a scope.
C36_FreshGeneratorHasGlobalScope ==
    /\ hist.op = "new" => (Len(scopes) = 1 /\ scopes[1].scope_type = "Global")
    /\ hist.op = "declare_var" => hist.st = "Ok"

\* The current scope is a Block of the Function scope f: f is a Function and
\* every scope above it is a Block.
BlockInsideFunction(sc, f) ==
    /\ f \in 1..(Len(sc) - 1)
    /\ sc[f].scope_type = "Function"
    /\ \A i \in (f + 1)..Len(sc) : sc[i].scope_type = "Block"

\* C38: find_var_address(name) called from a Block nested in a Function
\* scope, with no Function scope in between, for a name that Function scope
\* declares, returns no Upvalue address and adds no Upvalue to any scope.
C38_OwnFunctionVariableIsNotCaptured ==
    [][(/\ hist'.op = "find_var_address"
        /\ \E f \in 1..Len(scopes) :
              /\ BlockInsideFunction(scopes, f)
              /\ search_var(scopes[f], hist'.name) # 0) =>
          /\ hist'.st = "Ok"
          /\ hist'.val.kind # "Upvalue"
          /\ \A i \in 1..Len(scopes) : scopes'[i].upvalues = scopes[i].upvalues]_vars

(***************************************************************************)
(* Claims about the termination of generated conditionals.                 *)
(***************************************************************************)
\* C39: while the code generated for an If runs, no successful tick leaves the
\* VM in the state it started from; in particular the Jp emitted by the If
\* moves the instruction pointer.
C39_EveryTickMakesProgress ==
    (hist.op = "generate_if" /\ last.op # NoOpcode /\ last.st = "Ok") =>
        /\ <<ip, operands, call_stack>> # <<last.ip, last.operands, last.call_stack>>
        /\ last.op.op = "Jp" => ip # last.ip

====
